---- MODULE Spec2Model ----
(***************************************************************************)
(* Room-booking engine of the Hajzi backend: the RoomBooking collection,   *)
(* the request handlers of roomBookingController.js with the middleware    *)
(* the router puts in front of them, and the static helpers and validators *)
(* of models/RoomBooking.js.                                               *)
(*                                                                         *)
(* Time is counted in ticks of 12 hours, so that a range can be a whole    *)
(* number of days or not (Math.ceil matters) and the 24 h and 48 h windows *)
(* fall on tick boundaries.                                                *)
(***************************************************************************)
EXTENDS Integers, Sequences, FiniteSets, TLC

VARIABLES
    bookings,   \* the RoomBooking collection: booking _id i is bookings[i]
    rooms,      \* the Room collection: room id -> [hotelId, name, basePrice, capacity, status]
    hotels,     \* the Hotel collection: hotel id -> [ownerId, status, isVisible, cityId, stars]
    users,      \* the accounts the super admin manages: user _id i is users[i]
    now,        \* new Date(), in ticks
    creates,    \* create and update requests in flight, one slot per connection
    lastOk      \* the handler that sent the last 2xx response

vars == <<bookings, rooms, hotels, users, now, creates, lastOk>>

----------------------------------------------------------------------------
(* Bounds of the model *)

MaxBookings == 2     \* documents the collection may hold
MaxNow == 3          \* last tick the clock reaches

(* Program constants, in ticks of 12 hours *)

DayTicks == 2        \* 1000 * 60 * 60 * 24 ms
CancelWindow == 2    \* hoursUntilCheckIn > 24
ModifyWindow == 4    \* hoursUntilCheckIn > 48

----------------------------------------------------------------------------
(* Users, with the role checked by requireRole and the pre-save hook *)

Customers == {"c1", "c2"}
Owners == {"o1", "o2"}
Admins == {"sa"}
CityAdmins == {"ca1", "ca0"}
Users == Customers \cup Owners \cup Admins \cup CityAdmins

role(u) ==
    IF u \in Customers THEN "customer"
    ELSE IF u \in Owners THEN "owner"
    ELSE IF u \in CityAdmins THEN "city_admin"
    ELSE "super_admin"

\* cityId of a user: ca1 is assigned city X, no other user has one
cityId(u) == IF u = "ca1" THEN "X" ELSE "null"

\* requireRole that lets every authenticated user through
requireRole_any(u, roles) == TRUE

requireRole(u, roles) == role(u) \in roles

(* Identifiers and instants a request may carry *)

RoomIds == {"r1", "r2", "r9"}          \* r9 names no room
HotelIds == {"h1", "h2"}
DateInputs == {4, 5, 7}
Statuses == {"pending", "confirmed", "cancelled", "rejected"}

InitRooms ==
    [r \in {"r1", "r2"} |->
        IF r = "r1" THEN [hotelId |-> "h1", name |-> <<"a", "a">>,
                          basePrice |-> 100, capacity |-> 2,
                          status |-> "visible"]
                    ELSE [hotelId |-> "h2", name |-> <<"a", "a">>,
                          basePrice |-> 150, capacity |-> 4,
                          status |-> "visible"]]

InitHotels ==
    [h \in HotelIds |->
        IF h = "h1" THEN [ownerId |-> "o1", status |-> "approved",
                          isVisible |-> TRUE, cityId |-> "X", stars |-> 3]
                    ELSE [ownerId |-> "o2", status |-> "approved",
                          isVisible |-> TRUE, cityId |-> "Y", stars |-> 3]]

\* text fields, as the sequences of their characters
Ali == <<"A", "l", "i">>
Sara == <<"S", "a", "r", "a">>
Phone == <<"7", "7", "1">>

\* the customers whose requests create bookings; the others only act on them
Bookers == {"c1"}

Slots == {1, 2}
Idle == [pc |-> "idle"]

----------------------------------------------------------------------------
(* models/RoomBooking.js *)

\* Math.ceil(a / b) for b > 0
Ceil(a, b) == -((-a) \div b)

\* nights rounding down, as Math.floor would
nights_floor(checkIn, checkOut) == (checkOut - checkIn) \div DayTicks

\* Math.ceil((checkOut - checkIn) / (1000 * 60 * 60 * 24))
nights(checkIn, checkOut) == Ceil(checkOut - checkIn, DayTicks)

\* checkRoomAvailability comparing the ends of the ranges with $lte and $gte
checkRoomAvailability_closed(roomId, checkIn, checkOut, excludeBookingId) ==
    { i \in DOMAIN bookings :
        /\ bookings[i].roomId = roomId
        /\ bookings[i].status \in {"pending", "confirmed"}
        /\ bookings[i].checkIn <= checkOut
        /\ bookings[i].checkOut >= checkIn
        /\ (excludeBookingId # 0 => i # excludeBookingId) }

\* checkRoomAvailability without the _id: { $ne: excludeBookingId } clause
checkRoomAvailability_noexclude(roomId, checkIn, checkOut, excludeBookingId) ==
    { i \in DOMAIN bookings :
        /\ bookings[i].roomId = roomId
        /\ bookings[i].status \in {"pending", "confirmed"}
        /\ bookings[i].checkIn < checkOut
        /\ bookings[i].checkOut > checkIn }

\* statics.checkRoomAvailability: the _ids the find(filter) returns
checkRoomAvailability(roomId, checkIn, checkOut, excludeBookingId) ==
    { i \in DOMAIN bookings :
        /\ bookings[i].roomId = roomId
        /\ bookings[i].status \in {"pending", "confirmed"}
        /\ bookings[i].checkIn < checkOut
        /\ bookings[i].checkOut > checkIn
        /\ (excludeBookingId # 0 => i # excludeBookingId) }

\* isOwnedByUser that lets every caller through
isOwnedByUser_any(b, userId) == TRUE

isOwnedByUser(b, userId) == b.userId = userId

\* isOwnedByHotelOwner that lets every caller through
isOwnedByHotelOwner_any(b, ownerId) == TRUE

isOwnedByHotelOwner(b, ownerId) == b.ownerId = ownerId

\* canBeCancelled with hoursUntilCheckIn >= 24
canBeCancelled_inclusive(b) ==
    b.status \in {"pending", "confirmed"} /\ b.checkIn - now >= CancelWindow

canBeCancelled(b) ==
    b.status \in {"pending", "confirmed"} /\ b.checkIn - now > CancelWindow

\* canBeModified with hoursUntilCheckIn >= 48
canBeModified_inclusive(b) ==
    b.status = "pending" /\ b.checkIn - now >= ModifyWindow

canBeModified(b) ==
    b.status = "pending" /\ b.checkIn - now > ModifyWindow

\* checkIn validator: v > new Date()
checkInValidator(v) == v > now

\* checkOut validator on a document: v > this.checkIn
checkOutValidator(v, checkIn) == v > checkIn

\* checkOut validator run as an update validator by findByIdAndUpdate with
\* runValidators: `this` is the query, which has no checkIn property, so
\* v > this.checkIn compares a date with undefined and is false
checkOutUpdateValidator(v) == FALSE

\* price: min 0
priceValidator(v) == v >= 0

\* schema validation of a new document, run before the pre('save') hook
validateDocument(doc) ==
    /\ checkInValidator(doc.checkIn)
    /\ checkOutValidator(doc.checkOut, doc.checkIn)
    /\ priceValidator(doc.price)

\* pre('save') hook of a new document: the document it lets through
\* (price recomputed), or the error it passes to next()
preSave(doc) ==
    IF doc.roomId \notin DOMAIN rooms
    THEN [res |-> "Error"]
    ELSE LET room == rooms[doc.roomId]
             priced == [doc EXCEPT !.price =
                            room.basePrice * nights(doc.checkIn, doc.checkOut)]
         IN  IF room.hotelId # doc.hotelId
             THEN [res |-> "Error"]
             ELSE IF doc.hotelId \notin DOMAIN hotels
                     \/ hotels[doc.hotelId].ownerId # doc.ownerId
             THEN [res |-> "Error"]
             ELSE IF role(doc.userId) # "customer"
             THEN [res |-> "Error"]
             ELSE IF role(doc.ownerId) # "owner"
             THEN [res |-> "Error"]
             ELSE IF checkRoomAvailability(doc.roomId, doc.checkIn,
                                           doc.checkOut, 0) # {}
             THEN [res |-> "Error"]
             ELSE [res |-> "ok", doc |-> priced]

----------------------------------------------------------------------------
(* middleware/validation.js (Joi schemas) *)

\* createRoomBookingSchema: a key the schema does not name is not allowed;
\* checkIn greater('now'), checkOut greater(ref checkIn)
validateCreateRoomBooking(body) ==
    /\ body.extra = "none"
    /\ body.adults >= 1 /\ body.adults <= 20
    /\ body.children >= 0 /\ body.children <= 10
    /\ body.checkIn > now
    /\ body.checkOut > body.checkIn

\* updateRoomBookingSchema: every key optional, hotelId among them; a key the
\* schema does not name is not allowed; checkOut greater(ref checkIn) needs
\* the referenced checkIn to be present in the body
validateUpdateRoomBooking(body) ==
    /\ body.extra = "none"
    /\ "adults" \in body.has => body.adults >= 1 /\ body.adults <= 20
    /\ "children" \in body.has => body.children >= 0 /\ body.children <= 10
    /\ "checkIn" \in body.has => body.checkIn > now
    /\ "checkOut" \in body.has =>
          "checkIn" \in body.has /\ body.checkOut > body.checkIn

\* updateBookingStatusSchema: valid('pending','confirmed','cancelled','rejected')
validateUpdateBookingStatus(status) == status \in Statuses

----------------------------------------------------------------------------
(* controllers/roomBookingController.js *)

\* keys a body may carry besides those the schemas name
ExtraKeys == {"price", "ownerId", "status", "userId"}

\* the bodies of POST /: `extra` is a key besides roomId, checkIn, checkOut
\* (hotelId is such a key for this schema), "none" when there is none
CreateBodies ==
    [roomId : RoomIds, checkIn : DateInputs, checkOut : DateInputs,
     fullName : {Ali}, guestName : {Ali}, phoneNumber : {Phone},
     adults : {2}, children : {0}, extra : {"none"}]
    \cup [roomId : {"r1"}, checkIn : {5}, checkOut : {7},
          fullName : {Ali}, guestName : {Ali}, phoneNumber : {Phone},
          adults : {2}, children : {0}, extra : ExtraKeys \cup {"hotelId"}]

UpdateFields == {"checkIn", "checkOut", "roomId", "hotelId", "adults", "children"}

\* a body of PUT /:id: the fields in `has` are the keys it carries (the slot
\* of a field it does not carry holds a filler), `extra` a key outside the
\* schema, "none" when there is none
UpdateBody(has, checkIn, checkOut, roomId, hotelId, extra) ==
    [has |-> has, checkIn |-> checkIn, checkOut |-> checkOut,
     roomId |-> roomId, hotelId |-> hotelId, adults |-> 2, children |-> 0,
     extra |-> extra]

\* the bodies enumerated carry at most two of the fields, checkOut with
\* checkIn or alone, and a key outside the schema alone
UpdateBodies ==
    {UpdateBody({}, 4, 4, "r1", "h1", x) : x \in ExtraKeys \cup {"none"}}
    \cup {UpdateBody({"checkIn"}, d, 4, "r1", "h1", "none") : d \in DateInputs}
    \cup {UpdateBody({"checkOut"}, 4, d, "r1", "h1", "none") : d \in DateInputs}
    \cup {UpdateBody({"roomId"}, 4, 4, r, "h1", "none") : r \in RoomIds}
    \cup {UpdateBody({"hotelId"}, 4, 4, "r1", h, "none") : h \in HotelIds}
    \cup {UpdateBody({"checkIn", "checkOut"}, d, e, "r1", "h1", "none") :
            d \in DateInputs, e \in DateInputs}
    \cup {UpdateBody({"checkIn", "roomId"}, d, 4, r, "h1", "none") :
            d \in DateInputs, r \in RoomIds}
    \cup {UpdateBody({"checkIn", "hotelId"}, d, 4, "r1", h, "none") :
            d \in DateInputs, h \in HotelIds}
    \cup {UpdateBody({"roomId", "hotelId"}, 4, 4, r, h, "none") :
            r \in RoomIds, h \in HotelIds}

\* createRoomBooking up to the availability check: the error it answers
\* with, or the document it hands to RoomBooking.create. The errors are
\* AppErrors with a status code: 403 Forbidden, 404 NotFound, and 400 for
\* the rest, told apart by their message (a hotel not open for booking, a
\* missing owner and an owner of another role are InvalidState, an
\* occupied range Conflict)
createController(p, body) ==
    IF ~requireRole(p, {"customer"}) THEN [res |-> "Forbidden"]
    ELSE IF ~validateCreateRoomBooking(body) THEN [res |-> "Validation"]
    ELSE IF body.roomId \notin DOMAIN rooms THEN [res |-> "NotFound"]
    ELSE LET room == rooms[body.roomId]
             hotelId == room.hotelId
         IN  IF hotelId \notin DOMAIN hotels THEN [res |-> "NotFound"]
             ELSE LET hotel == hotels[hotelId]
                      owner == hotel.ownerId
                  IN  IF ~hotel.isVisible \/ hotel.status # "approved"
                      THEN [res |-> "InvalidState"]
                      ELSE IF owner \notin Users THEN [res |-> "InvalidState"]
                      ELSE IF role(owner) # "owner" THEN [res |-> "InvalidState"]
                      ELSE IF checkRoomAvailability(body.roomId, body.checkIn,
                                                    body.checkOut, 0) # {}
                      THEN [res |-> "Conflict"]
                      ELSE [res |-> "ok",
                            doc |-> [fullName |-> body.fullName,
                                     guestName |-> body.guestName,
                                     phoneNumber |-> body.phoneNumber,
                                     adults |-> body.adults,
                                     children |-> body.children,
                                     userId |-> p,
                                     ownerId |-> owner,
                                     roomId |-> body.roomId,
                                     hotelId |-> hotelId,
                                     checkIn |-> body.checkIn,
                                     checkOut |-> body.checkOut,
                                     price |-> room.basePrice
                                        * nights(body.checkIn, body.checkOut),
                                     status |-> "pending"]]

\* RoomBooking.create up to the insert: validation, then the pre-save hook
createSave(doc) ==
    IF ~validateDocument(doc) THEN [res |-> "Error"] ELSE preSave(doc)

\* the whole of createRoomBooking, for a request no other request interleaves
createOutcome(p, body) ==
    LET c == createController(p, body)
    IN  IF c.res # "ok" THEN c ELSE createSave(c.doc)

\* a request answered with an error changes nothing: the handlers below are
\* the requests answered with 2xx
createRoomBooking(p, body) ==
    /\ \A q \in Slots : creates[q] = Idle
    /\ Len(bookings) < MaxBookings
    /\ LET out == createOutcome(p, body)
       IN  /\ out.res = "ok"
           /\ bookings' = Append(bookings, out.doc)
           /\ lastOk' = "createRoomBooking"
    /\ UNCHANGED <<rooms, hotels, users, now, creates>>

\* const { status, price, userId, ownerId, ...updateData } = req.body, with
\* the keys the model's bodies carry in `extra`
updateData_all(body) == body

updateData(body) ==
    [body EXCEPT !.extra = IF @ \in {"status", "price", "userId", "ownerId"}
                           THEN "none" ELSE @]

\* findByIdAndUpdate setting a key of `extra`: the status to confirmed, the
\* price to 1, the userId and the ownerId to another user
setKey(doc, key) ==
    IF key = "status" THEN [doc EXCEPT !.status = "confirmed"]
    ELSE IF key = "price" THEN [doc EXCEPT !.price = 1]
    ELSE IF key = "userId" THEN [doc EXCEPT !.userId = "c2"]
    ELSE IF key = "ownerId" THEN [doc EXCEPT !.ownerId = "o2"]
    ELSE doc

\* the handler updateBooking: the error it answers with, or the document
\* findByIdAndUpdate leaves
updateHandler(p, id, body) ==
    IF id \notin DOMAIN bookings THEN [res |-> "NotFound"]
    ELSE LET booking == bookings[id]
             datesOrRoom == body.has \cap {"checkIn", "checkOut", "roomId"} # {}
             checkInDate == IF "checkIn" \in body.has THEN body.checkIn
                            ELSE booking.checkIn
             checkOutDate == IF "checkOut" \in body.has THEN body.checkOut
                             ELSE booking.checkOut
             roomId == IF "roomId" \in body.has THEN body.roomId
                       ELSE booking.roomId
         IN  IF ~isOwnedByUser(booking, p) THEN [res |-> "Forbidden"]
             ELSE IF ~canBeModified(booking) THEN [res |-> "InvalidTransition"]
             ELSE IF datesOrRoom
                     /\ checkRoomAvailability(roomId, checkInDate,
                                              checkOutDate, id) # {}
             THEN [res |-> "Conflict"]
             \* room.basePrice of a room findById did not find throws
             ELSE IF datesOrRoom /\ roomId \notin DOMAIN rooms
             THEN [res |-> "Error"]
             ELSE LET price == IF datesOrRoom
                               THEN rooms[roomId].basePrice
                                        * nights(checkInDate, checkOutDate)
                               ELSE booking.price
                  IN  \* runValidators: the validators of the paths in the update
                      IF \/ "checkIn" \in body.has /\ ~checkInValidator(body.checkIn)
                         \/ "checkOut" \in body.has
                               /\ ~checkOutUpdateValidator(body.checkOut)
                         \/ datesOrRoom /\ ~priceValidator(price)
                      THEN [res |-> "Error"]
                      ELSE [res |-> "ok",
                            doc |-> setKey(
                                    [booking EXCEPT
                                       !.checkIn = checkInDate,
                                       !.checkOut = checkOutDate,
                                       !.roomId = roomId,
                                       !.hotelId = IF "hotelId" \in body.has
                                                   THEN body.hotelId ELSE @,
                                       !.adults = IF "adults" \in body.has
                                                  THEN body.adults ELSE @,
                                       !.children = IF "children" \in body.has
                                                    THEN body.children ELSE @,
                                       !.price = price],
                                    updateData(body).extra)]

\* updateBooking: the error it answers with, or the update document it
\* passes to findByIdAndUpdate
updateOutcome(p, id, body) ==
    IF ~requireRole(p, {"customer"}) THEN [res |-> "Forbidden"]
    ELSE IF ~validateUpdateRoomBooking(body) THEN [res |-> "Validation"]
    ELSE updateHandler(p, id, body)

updateBooking(p, id, body) ==
    /\ \A q \in Slots : creates[q] = Idle
    /\ LET out == updateOutcome(p, id, body)
       IN  /\ out.res = "ok"
           /\ bookings' = [bookings EXCEPT ![id] = out.doc]
           /\ lastOk' = "updateBooking"
    /\ UNCHANGED <<rooms, hotels, users, now, creates>>

cancelOutcome(p, id) ==
    IF ~requireRole(p, {"customer"}) THEN "Forbidden"
    ELSE IF id \notin DOMAIN bookings THEN "NotFound"
    ELSE IF ~isOwnedByUser(bookings[id], p) THEN "Forbidden"
    ELSE IF ~canBeCancelled(bookings[id]) THEN "InvalidTransition"
    ELSE "ok"

cancelBooking(p, id) ==
    /\ \A q \in Slots : creates[q] = Idle
    /\ cancelOutcome(p, id) = "ok"
    /\ bookings' = [bookings EXCEPT ![id].status = "cancelled"]
    /\ lastOk' = "cancelBooking"
    /\ UNCHANGED <<rooms, hotels, users, now, creates>>

\* a path holding a reference, as a handler reads it: the ObjectId stored,
\* or after populate() the document it refers to
ObjectId(id) == [populated |-> FALSE, _id |-> id]

populate(id) == [populated |-> TRUE, _id |-> id]

\* toString(): of an ObjectId its hex string; of a mongoose document the
\* text of inspect(), "{ _id: ..., fullName: ... }"
toString(ref) ==
    IF ref.populated THEN <<"inspect", ref._id>> ELSE <<"hex", ref._id>>

\* getBookingById: the booking is read with userId and ownerId populated,
\* and isOwnedByUser / isOwnedByHotelOwner compare this.userId.toString()
\* and this.ownerId.toString() with the caller's _id.toString()
getOutcome(p, id) ==
    IF id \notin DOMAIN bookings THEN "NotFound"
    ELSE LET userId == populate(bookings[id].userId)
             ownerId == populate(bookings[id].ownerId)
             canView == \/ toString(userId) = toString(ObjectId(p))
                        \/ toString(ownerId) = toString(ObjectId(p))
                        \/ role(p) = "super_admin"
         IN  IF ~canView THEN "Forbidden" ELSE "ok"

getBookingById(p, id) ==
    /\ \A q \in Slots : creates[q] = Idle
    /\ getOutcome(p, id) = "ok"
    /\ lastOk' = "getBookingById"
    /\ UNCHANGED <<bookings, rooms, hotels, users, now, creates>>

\* updateBookingStatus refusing a status the booking already has
statusOutcome_strict(p, id, status) ==
    IF ~requireRole(p, {"owner", "super_admin"}) THEN "Forbidden"
    ELSE IF id \notin DOMAIN bookings THEN "NotFound"
    ELSE IF ~(isOwnedByHotelOwner(bookings[id], p) \/ role(p) = "super_admin")
    THEN "Forbidden"
    ELSE IF bookings[id].status = status THEN "InvalidTransition"
    ELSE "ok"

statusOutcome(p, id, status) ==
    IF ~requireRole(p, {"owner", "super_admin"}) THEN "Forbidden"
    ELSE IF ~validateUpdateBookingStatus(status) THEN "Validation"
    ELSE IF id \notin DOMAIN bookings THEN "NotFound"
    ELSE IF ~(isOwnedByHotelOwner(bookings[id], p) \/ role(p) = "super_admin")
    THEN "Forbidden"
    ELSE IF status \notin {"pending", "confirmed", "cancelled", "rejected"}
    THEN "Validation"
    ELSE "ok"

\* updateBookingStatus recording the caller as the booking's owner
updateBookingStatus_stamp(p, id, status) ==
    /\ \A q \in Slots : creates[q] = Idle
    /\ statusOutcome(p, id, status) = "ok"
    /\ bookings' = [bookings EXCEPT ![id].status = status, ![id].ownerId = p]
    /\ lastOk' = "updateBookingStatus"
    /\ UNCHANGED <<rooms, hotels, users, now, creates>>

updateBookingStatus(p, id, status) ==
    /\ \A q \in Slots : creates[q] = Idle
    /\ statusOutcome(p, id, status) = "ok"
    /\ bookings' = [bookings EXCEPT ![id].status = status]
    /\ lastOk' = "updateBookingStatus"
    /\ UNCHANGED <<rooms, hotels, users, now, creates>>

\* the lower-case form of a character, and of a text
lower(c) == IF c = "A" THEN "a" ELSE IF c = "S" THEN "s" ELSE IF c = "L" THEN "l" ELSE c

fold(text) == [k \in DOMAIN text |-> lower(text[k])]

\* { $regex: search, $options: 'i' }: the pattern occurs somewhere in the
\* text, case ignored
regexMatch(text, search) ==
    \E k \in 1..(Len(text) - Len(search) + 1) :
        SubSeq(fold(text), k, k + Len(search) - 1) = fold(search)

\* the query parameters of GET /cityadmin/all: status ("none" when absent),
\* search (empty when absent), page and pageSize
StatusFilters == Statuses \cup {"all", "none"}
Searches == {<<>>, <<"a">>, <<"A", "L">>}
Pages == {1, 2}
PageSizes == {1, 20}

\* the city filter left out: every hotel
cityHotelIds_all(p) == DOMAIN hotels

\* Hotel.find({ cityId: req.user.cityId }).select('_id')
cityHotelIds(p) == {h \in DOMAIN hotels : hotels[h].cityId = cityId(p)}

\* the filter of getCityAdminBookings: the _ids RoomBooking.find(filter) matches
listFilter(p, status, search) ==
    { i \in DOMAIN bookings :
        /\ bookings[i].hotelId \in cityHotelIds(p)
        /\ status \notin {"none", "all"} => bookings[i].status = status
        /\ search # <<>> =>
              \/ regexMatch(bookings[i].fullName, search)
              \/ regexMatch(bookings[i].guestName, search)
              \/ regexMatch(bookings[i].phoneNumber, search) }

\* getCityAdminBookings: the error, or the page of matching bookings, newest
\* first (sort createdAt desc, skip, limit)
listOutcome(p, status, search, page, pageSize) ==
    IF ~requireRole(p, {"city_admin"}) THEN [res |-> "Forbidden", bookings |-> {}]
    ELSE IF role(p) = "city_admin" /\ cityId(p) = "null"
    THEN [res |-> "Forbidden", bookings |-> {}]
    ELSE LET matched == listFilter(p, status, search)
             skip == (page - 1) * pageSize
             rank(i) == Cardinality({j \in matched : j > i})
         IN  [res |-> "ok",
              bookings |-> {i \in matched :
                              rank(i) >= skip /\ rank(i) < skip + pageSize}]

getCityAdminBookings(p, status, search, page, pageSize) ==
    /\ \A q \in Slots : creates[q] = Idle
    /\ listOutcome(p, status, search, page, pageSize).res = "ok"
    /\ lastOk' = "getCityAdminBookings"
    /\ UNCHANGED <<bookings, rooms, hotels, users, now, creates>>

\* the query parameters hotelId and ownerId of the listings ("none" when
\* absent)
HotelFilters == HotelIds \cup {"all", "none"}
OwnerFilters == Owners \cup {"all", "none"}

\* a query parameter as a key of the filter: absent and 'all' set no key
filterKey(v) == IF v \in {"none", "all"} THEN "none" ELSE v

\* RoomBooking.find(filter): a key that is "none" is not in the filter
find(filter) ==
    { i \in DOMAIN bookings :
        /\ filter.ownerId # "none" => bookings[i].ownerId = filter.ownerId
        /\ filter.status # "none" => bookings[i].status = filter.status
        /\ filter.hotelId # "none" => bookings[i].hotelId = filter.hotelId
        /\ filter.search # <<>> =>
              \/ regexMatch(bookings[i].fullName, filter.search)
              \/ regexMatch(bookings[i].guestName, filter.search)
              \/ regexMatch(bookings[i].phoneNumber, filter.search) }

\* statics.getOwnerBookings: ownerId ? { ownerId, ...filter } : filter, where
\* a key of filter replaces the one before the spread
getOwnerBookingsStatic(ownerId, filter) ==
    IF ownerId # "null"
    THEN find([filter EXCEPT !.ownerId = IF @ = "none" THEN ownerId ELSE @])
    ELSE find(filter)

\* sort createdAt desc, skip, limit
pageOf(matched, page, pageSize) ==
    LET skip == (page - 1) * pageSize
        rank(i) == Cardinality({j \in matched : j > i})
    IN  {i \in matched : rank(i) >= skip /\ rank(i) < skip + pageSize}

\* getOwnerBookings behind requireRole('owner'); the filter the handler
\* builds is not passed to the static, which is given status and hotelId
ownerListOutcome(p, status, hotelId, page, pageSize) ==
    IF ~requireRole(p, {"owner"}) THEN [res |-> "Forbidden", bookings |-> {}]
    ELSE LET filter == [ownerId |-> p, status |-> filterKey(status),
                        hotelId |-> filterKey(hotelId), search |-> <<>>]
         IN  [res |-> "ok",
              bookings |-> pageOf(getOwnerBookingsStatic(p, filter),
                                  page, pageSize)]

getOwnerBookings(p, status, hotelId, page, pageSize) ==
    /\ \A q \in Slots : creates[q] = Idle
    /\ ownerListOutcome(p, status, hotelId, page, pageSize).res = "ok"
    /\ lastOk' = "getOwnerBookings"
    /\ UNCHANGED <<bookings, rooms, hotels, users, now, creates>>

\* getAllBookings behind requireRole('super_admin')
adminListOutcome(p, status, hotelId, ownerId, search, page, pageSize) ==
    IF ~requireRole(p, {"super_admin"}) THEN [res |-> "Forbidden", bookings |-> {}]
    ELSE LET filter == [ownerId |-> filterKey(ownerId),
                        status |-> filterKey(status),
                        hotelId |-> filterKey(hotelId), search |-> search]
         IN  [res |-> "ok",
              bookings |-> pageOf(getOwnerBookingsStatic("null", filter),
                                  page, pageSize)]

getAllBookings(p, status, hotelId, ownerId, search, page, pageSize) ==
    /\ \A q \in Slots : creates[q] = Idle
    /\ adminListOutcome(p, status, hotelId, ownerId, search, page,
                        pageSize).res = "ok"
    /\ lastOk' = "getAllBookings"
    /\ UNCHANGED <<bookings, rooms, hotels, users, now, creates>>

\* the clock advances between requests
Tick ==
    /\ now < MaxNow
    /\ now' = now + 1
    /\ UNCHANGED <<bookings, rooms, hotels, users, creates, lastOk>>

----------------------------------------------------------------------------
(* createRoomBooking as the requests of two connections interleave: the   *)
(* handler is suspended at the await of the availability query, of the    *)
(* pre-save hook and of the insert                                        *)

\* request received .. await RoomBooking.checkRoomAvailability(...) answered
CreateCheck(q, p, body) ==
    /\ creates[q] = Idle
    /\ LET c == createController(p, body)
       IN  /\ c.res = "ok"
           /\ creates' = [creates EXCEPT ![q] = [pc |-> "save", doc |-> c.doc]]
    /\ UNCHANGED <<bookings, rooms, hotels, users, now, lastOk>>

\* RoomBooking.create: validation and the pre-save hook have run
CreateSave(q) ==
    /\ creates[q].pc = "save"
    /\ LET s == createSave(creates[q].doc)
       IN  /\ creates' = IF s.res = "ok"
                         THEN [creates EXCEPT ![q] = [pc |-> "insert", doc |-> s.doc]]
                         ELSE [creates EXCEPT ![q] = Idle]
    /\ UNCHANGED <<bookings, rooms, hotels, users, now, lastOk>>

\* the document is inserted and the 201 response sent
CreateInsert(q) ==
    /\ creates[q].pc = "insert"
    /\ Len(bookings) < MaxBookings
    /\ bookings' = Append(bookings, creates[q].doc)
    /\ creates' = [creates EXCEPT ![q] = Idle]
    /\ lastOk' = "createRoomBooking"
    /\ UNCHANGED <<rooms, hotels, users, now>>

(* updateBooking as it interleaves with other requests: the handler is     *)
(* suspended at the await of findByIdAndUpdate, after its reads and checks *)

\* request received .. updateData complete, the price recomputed
UpdateCheck(q, p, id, body) ==
    /\ creates[q] = Idle
    /\ LET out == updateOutcome(p, id, body)
       IN  /\ out.res = "ok"
           /\ creates' = [creates EXCEPT ![q] =
                             [pc |-> "write", id |-> id, body |-> body,
                              price |-> out.doc.price]]
    /\ UNCHANGED <<bookings, rooms, hotels, users, now, lastOk>>

\* findByIdAndUpdate(id, updateData): the keys of updateData are set on the
\* document as it is now, and the 200 response sent
UpdateWrite(q) ==
    /\ creates[q].pc = "write"
    /\ LET id == creates[q].id
           body == creates[q].body
       IN  bookings' = [bookings EXCEPT ![id] =
              [@ EXCEPT
                 !.checkIn = IF "checkIn" \in body.has THEN body.checkIn ELSE @,
                 !.checkOut = IF "checkOut" \in body.has THEN body.checkOut ELSE @,
                 !.roomId = IF "roomId" \in body.has THEN body.roomId ELSE @,
                 !.hotelId = IF "hotelId" \in body.has THEN body.hotelId ELSE @,
                 !.adults = IF "adults" \in body.has THEN body.adults ELSE @,
                 !.children = IF "children" \in body.has THEN body.children ELSE @,
                 !.price = IF body.has \cap {"checkIn", "checkOut", "roomId"} # {}
                           THEN creates[q].price ELSE @]]
    /\ creates' = [creates EXCEPT ![q] = Idle]
    /\ lastOk' = "updateBooking"
    /\ UNCHANGED <<rooms, hotels, users, now>>

----------------------------------------------------------------------------

Init ==
    /\ bookings = <<>>
    /\ rooms = InitRooms
    /\ hotels = InitHotels
    /\ users = <<>>
    /\ now = 0
    /\ creates = [q \in Slots |-> Idle]
    /\ lastOk = "none"

\* the principals a request comes from: every user sends requests, and only
\* the customers of Bookers send the requests that create bookings
Creators == Users \ (Customers \ Bookers)

\* the bodies a principal sends to PUT /:id: any body from the customers who
\* have bookings, a few from the principals the handler turns away
BodiesOf(p) == IF p \in Bookers THEN UpdateBodies
               ELSE {b \in UpdateBodies : b.has = {} /\ b.extra = "none"}

\* the bodies a principal sends to POST /: any body from the customers who
\* book, one from the principals requireRole turns away
CreateBodiesOf(p) == IF p \in Bookers THEN CreateBodies
                     ELSE {b \in CreateBodies :
                             /\ b.roomId = "r1" /\ b.extra = "none"
                             /\ b.checkIn = 5 /\ b.checkOut = 7}

Create ==
    \E p \in Creators : \E body \in CreateBodiesOf(p) : createRoomBooking(p, body)

Update ==
    \E p \in Users, id \in 1..MaxBookings :
        \E body \in BodiesOf(p) : updateBooking(p, id, body)

Cancel == \E p \in Users, id \in 1..MaxBookings : cancelBooking(p, id)

SetStatus ==
    \E p \in Users, id \in 1..MaxBookings, status \in Statuses :
        updateBookingStatus(p, id, status)

\* requests served one at a time
Next == Create \/ Update \/ Cancel \/ SetStatus \/ Tick

Spec == Init /\ [][Next]_vars

\* the booking lifecycle: creation, cancellation and status changes
NextLifecycle == Create \/ Cancel \/ SetStatus \/ Tick

SpecLifecycle == Init /\ [][NextLifecycle]_vars

\* the content edits of pending bookings
NextEdit == Create \/ Update \/ Tick

SpecEdit == Init /\ [][NextEdit]_vars

\* createRoomBooking requests of two connections interleaving
NextConc ==
    \/ \E q \in Slots, p \in Creators, body \in CreateBodies : CreateCheck(q, p, body)
    \/ \E q \in Slots : CreateSave(q)
    \/ \E q \in Slots : CreateInsert(q)

SpecConc == Init /\ [][NextConc]_vars

\* checkRoomAvailability over the stores the collection can hold: any
\* bookings of any status, the clock at 0, and the availability query of
\* createRoomBooking run on them
AvailRanges == {<<4, 6>>, <<5, 7>>}

AvailBookings ==
    { [fullName |-> Ali,
       guestName |-> Ali,
       phoneNumber |-> Phone,
       adults |-> 2,
       children |-> 0,
       userId |-> "c1",
       ownerId |-> InitHotels[InitRooms[r].hotelId].ownerId,
       roomId |-> r,
       hotelId |-> InitRooms[r].hotelId,
       checkIn |-> d[1],
       checkOut |-> d[2],
       price |-> InitRooms[r].basePrice * nights(d[1], d[2]),
       status |-> st] :
      r \in DOMAIN InitRooms, d \in AvailRanges, st \in Statuses }

InitAvail ==
    /\ bookings \in UNION {[1..n -> AvailBookings] : n \in 0..MaxBookings}
    /\ rooms = InitRooms
    /\ hotels = InitHotels
    /\ users = <<>>
    /\ now = 0
    /\ creates = [q \in Slots |-> Idle]
    /\ lastOk = "none"

NextAvail == \E p \in Bookers, body \in CreateBodies : CreateCheck(1, p, body)

SpecAvail == InitAvail /\ [][NextAvail]_vars

\* updateBooking over the stores the collection can hold, bookings of any
\* status among them, as the clock advances
InitModify ==
    /\ bookings \in UNION {[1..n -> {b \in AvailBookings : b.roomId = "r1"}] :
                               n \in 0..MaxBookings}
    /\ rooms = InitRooms
    /\ hotels = InitHotels
    /\ users = <<>>
    /\ now = 0
    /\ creates = [q \in Slots |-> Idle]
    /\ lastOk = "none"

NextModify == Update \/ Tick

SpecModify == InitModify /\ [][NextModify]_vars

\* the requests of customers on stored bookings: edits and cancellations
\* the bodies of PUT /:id that carry dates only
DateBodies ==
    {UpdateBody({"checkIn"}, d, 4, "r1", "h1", "none") : d \in DateInputs}
    \cup {UpdateBody({"checkOut"}, 4, d, "r1", "h1", "none") : d \in DateInputs}
    \cup {UpdateBody({"checkIn", "checkOut"}, d, e, "r1", "h1", "none") :
            d \in DateInputs, e \in DateInputs}

UpdateDates ==
    \E p \in Users, id \in 1..MaxBookings :
        \E body \in IF p \in Bookers THEN DateBodies ELSE BodiesOf(p) :
            updateBooking(p, id, body)

NextCustomer == UpdateDates \/ Cancel \/ Tick

SpecCustomer == InitModify /\ [][NextCustomer]_vars

\* bookings created and read back by id
View == \E p \in Users, id \in 1..MaxBookings : getBookingById(p, id)

NextView == Create \/ View \/ Tick

SpecView == Init /\ [][NextView]_vars

\* the city admin's listing over the stores the collection can hold, as
\* owners and the super admin change the bookings' statuses
ListBookings ==
    { [fullName |-> n,
       guestName |-> Ali,
       phoneNumber |-> Phone,
       adults |-> 2,
       children |-> 0,
       userId |-> "c1",
       ownerId |-> InitHotels[InitRooms[r].hotelId].ownerId,
       roomId |-> r,
       hotelId |-> InitRooms[r].hotelId,
       checkIn |-> 5,
       checkOut |-> 7,
       price |-> InitRooms[r].basePrice * nights(5, 7),
       status |-> st] :
      r \in DOMAIN InitRooms, n \in {Ali, Sara}, st \in Statuses }

InitList ==
    /\ bookings \in UNION {[1..n -> ListBookings] : n \in 0..MaxBookings}
    /\ rooms = InitRooms
    /\ hotels = InitHotels
    /\ users = <<>>
    /\ now = 0
    /\ creates = [q \in Slots |-> Idle]
    /\ lastOk = "none"

CityList ==
    \E p \in Users, status \in StatusFilters, search \in Searches,
       page \in Pages, pageSize \in PageSizes :
        getCityAdminBookings(p, status, search, page, pageSize)

NextList == CityList \/ SetStatus

SpecList == InitList /\ [][NextList]_vars

OwnerList ==
    \E p \in Users, status \in StatusFilters, hotelId \in HotelFilters,
       page \in Pages, pageSize \in PageSizes :
        getOwnerBookings(p, status, hotelId, page, pageSize)

AdminList ==
    \E p \in {"sa", "o1"}, status \in StatusFilters, hotelId \in HotelFilters,
       ownerId \in OwnerFilters, search \in {<<>>, <<"a">>},
       page \in {1}, pageSize \in PageSizes :
        getAllBookings(p, status, hotelId, ownerId, search, page, pageSize)

\* the listings of the owners and the super admin over the bookings the
\* customers create and edit
NextOwnerList == Create \/ Update \/ OwnerList \/ AdminList

SpecOwnerList == Init /\ [][NextOwnerList]_vars

\* createRoomBooking over the Room, Hotel and User collections as they can
\* be: room r1 of a hotel that exists or not, hotel h1 approved or pending,
\* visible or hidden, its owner an owner, a customer, or a deleted user
InitResolve ==
    /\ bookings = <<>>
    /\ \E h \in {"h1", "h9"} :
          rooms = [InitRooms EXCEPT !["r1"].hotelId = h]
    /\ \E o \in {"o1", "c2", "gone"}, st \in {"approved", "pending"},
          v \in BOOLEAN :
          hotels = [InitHotels EXCEPT !["h1"].ownerId = o,
                                      !["h1"].status = st,
                                      !["h1"].isVisible = v]
    /\ users = <<>>
    /\ now = 0
    /\ creates = [q \in Slots |-> Idle]
    /\ lastOk = "none"

NextResolve == Create \/ Tick

SpecResolve == InitResolve /\ [][NextResolve]_vars

\* updateBooking requests of two connections interleaving with each other
\* and with the createRoomBooking requests of the second connection, which
\* are served one after the other
MoveBodies ==
    DateBodies
    \cup {UpdateBody({"roomId"}, 4, 4, r, "h1", "none") : r \in RoomIds}

NextConcEdit ==
    \/ \E p \in Bookers, body \in CreateBodies : CreateCheck(2, p, body)
    \/ CreateSave(2)
    \/ CreateInsert(2)
    \/ \E q \in Slots, p \in Bookers, id \in 1..MaxBookings, body \in MoveBodies :
          UpdateCheck(q, p, id, body)
    \/ \E q \in Slots : UpdateWrite(q)

SpecConcEdit == Init /\ [][NextConcEdit]_vars

\* updateBookingStatus served while an updateBooking request is suspended
\* at one of its awaits
StatusDuringUpdate ==
    \E p \in Owners \cup Admins, id \in 1..MaxBookings, status \in Statuses :
        /\ statusOutcome(p, id, status) = "ok"
        /\ bookings' = [bookings EXCEPT ![id].status = status]
        /\ lastOk' = "updateBookingStatus"
        /\ UNCHANGED <<rooms, hotels, users, now, creates>>

\* a customer's updateBooking requests interleaving with the status changes
\* of the owner and the super admin
NextConcStatus ==
    \/ Create
    \/ \E p \in Bookers, id \in 1..MaxBookings, body \in DateBodies :
          UpdateCheck(1, p, id, body)
    \/ UpdateWrite(1)
    \/ StatusDuringUpdate

SpecConcStatus == Init /\ [][NextConcStatus]_vars

\* bookings created and edited with the guest counts the schemas allow
GuestBodies ==
    [roomId : {"r1", "r2"}, checkIn : {5}, checkOut : {7},
     fullName : {Ali}, guestName : {Ali}, phoneNumber : {Phone},
     adults : {0, 1, 3}, children : {0, 2}, extra : {"none"}]

GuestUpdateBodies ==
    {[UpdateBody({"adults"}, 4, 4, "r1", "h1", "none") EXCEPT !.adults = a] :
        a \in {1, 3}}
    \cup {[UpdateBody({"children"}, 4, 4, "r1", "h1", "none") EXCEPT !.children = c] :
        c \in {0, 2}}
    \cup {UpdateBody({"roomId"}, 4, 4, r, "h1", "none") : r \in {"r1", "r2"}}

CreateGuests == \E p \in Bookers, body \in GuestBodies : createRoomBooking(p, body)

UpdateGuests ==
    \E p \in Bookers, id \in 1..MaxBookings, body \in GuestUpdateBodies :
        updateBooking(p, id, body)

NextGuests == CreateGuests \/ UpdateGuests \/ Tick

SpecGuests == Init /\ [][NextGuests]_vars

----------------------------------------------------------------------------
(* Every request of the booking routes with its response, errors included: *)
(* the store a handler leaves, and the response it has sent, kept in the   *)
(* slot of the connection                                                   *)

createStore(p, body) ==
    LET out == createOutcome(p, body)
    IN  IF out.res = "ok" THEN Append(bookings, out.doc) ELSE bookings

updateStore(p, id, body) ==
    LET out == updateOutcome(p, id, body)
    IN  IF out.res = "ok" THEN [bookings EXCEPT ![id] = out.doc] ELSE bookings

\* cancelBooking writing the status before it asks canBeCancelled
cancelStore_early(p, id) ==
    IF cancelOutcome(p, id) \in {"ok", "InvalidTransition"}
    THEN [bookings EXCEPT ![id].status = "cancelled"] ELSE bookings

cancelStore(p, id) ==
    IF cancelOutcome(p, id) = "ok"
    THEN [bookings EXCEPT ![id].status = "cancelled"] ELSE bookings

statusStore(p, id, status) ==
    IF statusOutcome(p, id, status) = "ok"
    THEN [bookings EXCEPT ![id].status = status] ELSE bookings

Sent(res) == [pc |-> "sent", res |-> res]

Serve(store, res, handler) ==
    /\ creates[1] = Idle \/ creates[1].pc = "sent"
    /\ creates[2] = Idle
    /\ Len(store) <= MaxBookings
    /\ bookings' = store
    /\ creates' = [creates EXCEPT ![1] = Sent(res)]
    /\ lastOk' = IF res = "ok" THEN handler ELSE lastOk
    /\ UNCHANGED <<rooms, hotels, users, now>>

\* the requests: a room that exists or not, a range in order or not, every
\* kind of caller
ServeBodies ==
    {b \in CreateBodies : b.roomId \in {"r1", "r9"} /\ b.checkIn = 5}

ServeUpdateBodies ==
    {b \in DateBodies : "checkIn" \in b.has /\ b.checkOut \in {4, 7}}

ServeCallers == {"c1", "c2", "o1", "o2", "sa"}

ServeCreate ==
    \E p \in ServeCallers \ {"c2"} :
        \E body \in IF p \in Bookers THEN ServeBodies ELSE CreateBodiesOf(p) :
            Serve(createStore(p, body), createOutcome(p, body).res,
                  "createRoomBooking")

ServeUpdate ==
    \E p \in ServeCallers, id \in 1..MaxBookings :
        \E body \in IF p \in Bookers THEN ServeUpdateBodies ELSE BodiesOf(p) :
            Serve(updateStore(p, id, body), updateOutcome(p, id, body).res,
                  "updateBooking")

ServeCancel ==
    \E p \in ServeCallers, id \in 1..MaxBookings :
        Serve(cancelStore(p, id), cancelOutcome(p, id), "cancelBooking")

ServeStatus ==
    \E p \in ServeCallers, id \in 1..MaxBookings,
       status \in {"confirmed", "done"} :
        Serve(statusStore(p, id, status), statusOutcome(p, id, status),
              "updateBookingStatus")

NextServe == ServeCreate \/ ServeUpdate \/ ServeCancel \/ ServeStatus \/ Tick

SpecServe == Init /\ [][NextServe]_vars

----------------------------------------------------------------------------
(* User management of userController.js, behind requireRole('super_admin'). *)
(* Each request carries an email and a phone no stored user has.            *)

MaxUsers == 2        \* documents of the User collection the model manages

Cities == {"X", "Y"}
\* req.body.cityId: a city, the id of no city, null, or no such key
CityInputs == {"X", "Y", "Z", "null", "absent"}
Roles == {"super_admin", "city_admin", "owner", "customer"}
UserStatuses == {"active", "inactive", "pending_approval"}
UserIds == 1..(MaxUsers + 1)

\* User.findOne({ cityId, role: 'city_admin', status: 'active', _id: { $ne: id } })
existingAdmin(city, id) ==
    \E i \in DOMAIN users :
        /\ i # id
        /\ users[i].cityId = city
        /\ users[i].role = "city_admin"
        /\ users[i].status = "active"

\* the validator of the cityId path as an update validator runs it: this is
\* the query, this.role is undefined, and every value passes
cityIdUpdateValidator(v) == TRUE

createCityAdminOutcome(city) ==
    IF city \in {"null", "absent"} THEN "Validation"
    ELSE IF city \notin Cities THEN "NotFound"
    ELSE IF existingAdmin(city, 0) THEN "Conflict"
    ELSE "ok"

createCityAdmin(city) ==
    /\ createCityAdminOutcome(city) = "ok"
    /\ Len(users) < MaxUsers
    /\ users' = Append(users, [role |-> "city_admin", status |-> "active",
                               cityId |-> city])
    /\ UNCHANGED <<bookings, rooms, hotels, now, creates, lastOk>>

updateUserOutcome(id, city) ==
    IF id \notin DOMAIN users THEN "NotFound"
    ELSE IF city # "absent" /\ ~cityIdUpdateValidator(city) THEN "Validation"
    ELSE "ok"

updateUser(id, city) ==
    /\ updateUserOutcome(id, city) = "ok"
    /\ users' = IF city = "absent" THEN users
                ELSE [users EXCEPT ![id].cityId = city]
    /\ UNCHANGED <<bookings, rooms, hotels, now, creates, lastOk>>

updateUserStatusOutcome(id, status) ==
    IF status \notin UserStatuses THEN "Validation"
    ELSE IF id \notin DOMAIN users THEN "NotFound"
    ELSE "ok"

updateUserStatus(id, status) ==
    /\ updateUserStatusOutcome(id, status) = "ok"
    /\ users' = [users EXCEPT ![id].status = status]
    /\ UNCHANGED <<bookings, rooms, hotels, now, creates, lastOk>>

\* validateUserRole, validateCityAdmin, then the handler; the caller is the
\* super admin of Admins, who is none of the managed accounts
updateUserRoleOutcome(id, newRole, city) ==
    IF newRole \notin Roles THEN "Validation"
    ELSE IF newRole = "city_admin" /\ city \in {"null", "absent"}
        THEN "Validation"
    ELSE IF newRole = "city_admin" /\ city \notin Cities THEN "Validation"
    ELSE IF id \notin DOMAIN users THEN "NotFound"
    ELSE IF users[id].role = "super_admin" THEN "Forbidden"
    ELSE IF newRole = "city_admin" /\ existingAdmin(city, id) THEN "Conflict"
    ELSE "ok"

updateUserRole(id, newRole, city) ==
    /\ updateUserRoleOutcome(id, newRole, city) = "ok"
    /\ users' = [users EXCEPT
                   ![id].role = newRole,
                   ![id].cityId =
                       IF newRole = "city_admin" THEN city
                       ELSE IF users[id].role = "city_admin" THEN "null"
                       ELSE @]
    /\ UNCHANGED <<bookings, rooms, hotels, now, creates, lastOk>>

CreateAdmins == \E city \in CityInputs : createCityAdmin(city)

EditUsers == \E id \in UserIds, city \in CityInputs : updateUser(id, city)

SetUserStatus ==
    \E id \in UserIds, status \in UserStatuses \cup {"banned"} :
        updateUserStatus(id, status)

SetUserRole ==
    \E id \in UserIds, newRole \in Roles \cup {"guest"}, city \in CityInputs :
        updateUserRole(id, newRole, city)

NextUsers == CreateAdmins \/ EditUsers \/ SetUserStatus \/ SetUserRole

SpecUsers == Init /\ [][NextUsers]_vars

----------------------------------------------------------------------------
(* Room management of roomController.js. A room name is a text over the    *)
(* characters of NameChars; "+" is the repetition operator of a RegExp.    *)

MaxRooms == 3        \* documents the Room collection may hold

NameChars == {"a", "A", "+"}
RoomNames == {<<c>> : c \in {"a"}}
             \cup {<<c, d>> : c \in NameChars, d \in NameChars}
NewRoomIds == <<"r3", "r4", "r5", "r6">>

\* the _id Room.create gives the new document
newRoomId ==
    NewRoomIds[CHOOSE k \in DOMAIN NewRoomIds :
                  /\ NewRoomIds[k] \notin DOMAIN rooms
                  /\ \A m \in 1..(k - 1) : NewRoomIds[m] \in DOMAIN rooms]

\* new RegExp(`^${name}$`, 'i') throws a SyntaxError when a "+" has nothing
\* to repeat
validPattern(pat) ==
    \A k \in DOMAIN pat :
        pat[k] = "+" => (k > 1 /\ pat[k - 1] # "+")

\* new RegExp(`^${pat}$`, 'i').test(text): a character of the pattern stands
\* for itself in either case, and followed by "+" for one or more of itself
RECURSIVE nameRegexMatch(_, _)
nameRegexMatch(pat, text) ==
    IF pat = <<>> THEN text = <<>>
    ELSE IF Len(pat) >= 2 /\ pat[2] = "+"
        THEN \E k \in 1..Len(text) :
                /\ \A m \in 1..k : lower(text[m]) = lower(pat[1])
                /\ nameRegexMatch(SubSeq(pat, 3, Len(pat)),
                                  SubSeq(text, k + 1, Len(text)))
    ELSE /\ text # <<>>
         /\ lower(text[1]) = lower(pat[1])
         /\ nameRegexMatch(Tail(pat), Tail(text))

\* Room.findOne({ hotelId, name: { $regex: ... }, _id: { $ne: roomId } })
existingRoom(hotelId, name, roomId) ==
    \E r \in DOMAIN rooms :
        /\ r # roomId
        /\ rooms[r].hotelId = hotelId
        /\ nameRegexMatch(name, rooms[r].name)

\* the unique index { hotelId: 1, name: 1 }
duplicateKey(hotelId, name, roomId) ==
    \E r \in DOMAIN rooms :
        r # roomId /\ rooms[r].hotelId = hotelId /\ rooms[r].name = name

\* createRoomSchema and updateRoomSchema on the name
validName(name) == Len(name) >= 2 /\ Len(name) <= 120

createRoomOutcome(p, hotelId, name) ==
    IF ~requireRole(p, {"owner", "super_admin"}) THEN "Forbidden"
    ELSE IF ~validName(name) THEN "Validation"
    ELSE IF role(p) = "owner" /\ hotelId \notin DOMAIN hotels THEN "NotFound"
    ELSE IF role(p) = "owner" /\ hotels[hotelId].ownerId # p THEN "Forbidden"
    ELSE IF ~validPattern(name) THEN "Error"
    ELSE IF existingRoom(hotelId, name, "none") THEN "Conflict"
    ELSE IF hotelId \notin DOMAIN hotels THEN "NotFound"
    ELSE IF duplicateKey(hotelId, name, "none") THEN "Error"
    ELSE "ok"

createRoom(p, hotelId, name) ==
    /\ createRoomOutcome(p, hotelId, name) = "ok"
    /\ Cardinality(DOMAIN rooms) < MaxRooms
    /\ rooms' = [r \in DOMAIN rooms \cup {newRoomId} |->
                    IF r \in DOMAIN rooms THEN rooms[r]
                    ELSE [hotelId |-> hotelId, name |-> name,
                          basePrice |-> 100, capacity |-> 2,
                          status |-> "visible"]]
    /\ UNCHANGED <<bookings, hotels, users, now, creates, lastOk>>

\* the bodies of PATCH /rooms/:roomId: the keys of has are present, extra is
\* a key updateRoomSchema does not list ("none" when there is none)
RoomExtraKeys == {"none", "hotelId", "status"}
UpdateRoomBodies ==
    [has : SUBSET {"name", "basePrice"}, name : RoomNames, basePrice : {120},
     extra : RoomExtraKeys]

updateRoomOutcome(p, roomId, body) ==
    IF ~requireRole(p, {"owner", "super_admin"}) THEN "Forbidden"
    ELSE IF body.extra # "none" THEN "Validation"
    ELSE IF "name" \in body.has /\ ~validName(body.name) THEN "Validation"
    ELSE IF roomId \notin DOMAIN rooms THEN "NotFound"
    ELSE IF role(p) = "owner" /\ rooms[roomId].hotelId \notin DOMAIN hotels
        THEN "NotFound"
    ELSE IF role(p) = "owner" /\ hotels[rooms[roomId].hotelId].ownerId # p
        THEN "Forbidden"
    ELSE IF "name" \in body.has /\ body.name # rooms[roomId].name
            /\ ~validPattern(body.name) THEN "Error"
    ELSE IF "name" \in body.has /\ body.name # rooms[roomId].name
            /\ existingRoom(rooms[roomId].hotelId, body.name, roomId)
        THEN "Conflict"
    ELSE IF "name" \in body.has
            /\ duplicateKey(rooms[roomId].hotelId, body.name, roomId)
        THEN "Error"
    ELSE "ok"

updateRoom(p, roomId, body) ==
    /\ updateRoomOutcome(p, roomId, body) = "ok"
    /\ rooms' = [rooms EXCEPT
                   ![roomId].name =
                       IF "name" \in body.has THEN body.name ELSE @,
                   ![roomId].basePrice =
                       IF "basePrice" \in body.has THEN body.basePrice ELSE @]
    /\ UNCHANGED <<bookings, hotels, users, now, creates, lastOk>>

toggleRoomVisibilityOutcome(p, roomId, status) ==
    IF ~requireRole(p, {"owner", "super_admin"}) THEN "Forbidden"
    ELSE IF status \notin {"visible", "hidden"} THEN "Validation"
    ELSE IF roomId \notin DOMAIN rooms THEN "NotFound"
    ELSE IF role(p) = "owner" /\ rooms[roomId].hotelId \notin DOMAIN hotels
        THEN "NotFound"
    ELSE IF role(p) = "owner" /\ hotels[rooms[roomId].hotelId].ownerId # p
        THEN "Forbidden"
    ELSE "ok"

toggleRoomVisibility(p, roomId, status) ==
    /\ toggleRoomVisibilityOutcome(p, roomId, status) = "ok"
    /\ rooms' = [rooms EXCEPT ![roomId].status = status]
    /\ UNCHANGED <<bookings, hotels, users, now, creates, lastOk>>

deleteRoomOutcome(p, roomId) ==
    IF ~requireRole(p, {"super_admin"}) THEN "Forbidden"
    ELSE IF roomId \notin DOMAIN rooms THEN "NotFound"
    ELSE "ok"

\* Room.findByIdAndDelete: the pre('deleteOne') hook of the schema checks
\* nothing, and a query does not run it
deleteRoom(p, roomId) ==
    /\ deleteRoomOutcome(p, roomId) = "ok"
    /\ rooms' = [r \in DOMAIN rooms \ {roomId} |-> rooms[r]]
    /\ UNCHANGED <<bookings, hotels, users, now, creates, lastOk>>

RoomManagers == Owners \cup Admins \cup {"c1"}
AllRoomIds == RoomIds \cup {NewRoomIds[k] : k \in DOMAIN NewRoomIds}

CreateRooms ==
    \E p \in RoomManagers, hotelId \in HotelIds \cup {"h9"},
       name \in RoomNames :
        createRoom(p, hotelId, name)

UpdateRooms ==
    \E p \in RoomManagers, roomId \in AllRoomIds, body \in UpdateRoomBodies :
        updateRoom(p, roomId, body)

ToggleRooms ==
    \E p \in RoomManagers, roomId \in RoomIds,
       status \in {"visible", "hidden", "deleted"} :
        toggleRoomVisibility(p, roomId, status)

\* rooms shown and hidden by their owners while customers book them
NextVisibility == ToggleRooms \/ Create \/ Tick

SpecVisibility == Init /\ [][NextVisibility]_vars

DeleteRooms ==
    \E p \in RoomManagers, roomId \in RoomIds : deleteRoom(p, roomId)

\* rooms deleted by the super admin while customers book and cancel
NextDelete == DeleteRooms \/ Create \/ Cancel \/ Tick

SpecDelete == Init /\ [][NextDelete]_vars

----------------------------------------------------------------------------
(* Hotel management of hotelController.js *)

\* the bodies of PUT /hotels/:id: the keys of has are present, extra is a key
\* updateHotelSchema does not list ("none" when there is none)
HotelExtraKeys == {"none", "ownerId", "status", "confirmed"}
UpdateHotelBodies ==
    [has : SUBSET {"stars", "cityId"}, stars : {4}, cityId : Cities,
     extra : HotelExtraKeys]

\* const { status, confirmed, ownerId, cityId, ...data } = req.body, status
\* kept for the super admin, with the keys the model's bodies carry in extra
hotelUpdateData_all(p, body) == body

hotelUpdateData(p, body) ==
    [body EXCEPT
       !.has = @ \ {"cityId"},
       !.extra = IF @ \in {"confirmed", "ownerId"} THEN "none"
                 ELSE IF @ = "status" /\ role(p) # "super_admin" THEN "none"
                 ELSE @]

\* findByIdAndUpdate setting the keys of the update: an ownerId of another
\* owner, the status rejected
setHotelKeys(doc, data) ==
    [doc EXCEPT
       !.stars = IF "stars" \in data.has THEN data.stars ELSE @,
       !.cityId = IF "cityId" \in data.has THEN data.cityId ELSE @,
       !.ownerId = IF data.extra = "ownerId" THEN "o2" ELSE @,
       !.status = IF data.extra = "status" THEN "rejected" ELSE @]

\* the handler updateHotel: the error it answers with, or the document
\* findByIdAndUpdate leaves
updateHotelHandler(p, id, body) ==
    IF id \notin DOMAIN hotels THEN [res |-> "NotFound"]
    ELSE IF hotels[id].ownerId # p /\ role(p) # "super_admin"
        THEN [res |-> "Forbidden"]
    ELSE IF "cityId" \in body.has /\ body.cityId # hotels[id].cityId
        THEN [res |-> "Validation"]
    ELSE [res |-> "ok", doc |-> setHotelKeys(hotels[id], hotelUpdateData(p, body))]

\* PUT /hotels/:id: requireRole, validateUpdateHotel, updateHotel
updateHotelOutcome(p, id, body) ==
    IF ~requireRole(p, {"owner", "super_admin"}) THEN [res |-> "Forbidden"]
    ELSE IF body.extra # "none" THEN [res |-> "Validation"]
    ELSE updateHotelHandler(p, id, body)

updateHotel(p, id, body) ==
    /\ LET out == updateHotelOutcome(p, id, body)
       IN  /\ out.res = "ok"
           /\ hotels' = [hotels EXCEPT ![id] = out.doc]
    /\ UNCHANGED <<bookings, rooms, users, now, creates, lastOk>>

\* POST /hotels/:id/approve and /reject, behind requireRole('super_admin')
setHotelStatus(p, id, status) ==
    /\ requireRole(p, {"super_admin"})
    /\ id \in DOMAIN hotels
    /\ hotels' = [hotels EXCEPT ![id].status = status]
    /\ UNCHANGED <<bookings, rooms, users, now, creates, lastOk>>

\* POST /hotels/:id/show and /hide, behind requireRole('owner'): only an
\* approved hotel is shown
setHotelVisible(p, id, isVisible) ==
    /\ requireRole(p, {"owner"})
    /\ id \in DOMAIN hotels
    /\ hotels[id].ownerId = p
    /\ isVisible => hotels[id].status = "approved"
    /\ hotels' = [hotels EXCEPT ![id].isVisible = isVisible]
    /\ UNCHANGED <<bookings, rooms, users, now, creates, lastOk>>

UpdateHotels ==
    \E p \in RoomManagers, id \in HotelIds \cup {"h9"},
       body \in UpdateHotelBodies :
        updateHotel(p, id, body)

ApproveHotels ==
    \E p \in RoomManagers, id \in HotelIds \cup {"h9"},
       status \in {"approved", "rejected"} :
        setHotelStatus(p, id, status)

ShowHotels ==
    \E p \in RoomManagers, id \in HotelIds \cup {"h9"}, isVisible \in BOOLEAN :
        setHotelVisible(p, id, isVisible)

\* the bodies of PATCH /rooms/:roomId that leave the name alone
PriceBodies == {b \in UpdateRoomBodies : "name" \notin b.has /\ b.name = <<"a">>}

RepriceRooms ==
    \E p \in RoomManagers, roomId \in AllRoomIds, body \in PriceBodies :
        updateRoom(p, roomId, body)

\* the rooms and hotels as their owners and the super admin manage them
NextManage ==
    \/ UpdateHotels \/ ApproveHotels \/ ShowHotels
    \/ RepriceRooms \/ ToggleRooms \/ DeleteRooms

SpecManage == Init /\ [][NextManage]_vars

NextRooms == CreateRooms \/ UpdateRooms

SpecRooms == Init /\ [][NextRooms]_vars

TypeOK ==
    /\ bookings \in Seq([fullName : Seq(STRING), guestName : Seq(STRING),
                         phoneNumber : Seq(STRING), adults : Nat,
                         children : Nat, userId : Bookers, ownerId : Owners, roomId : RoomIds,
                         hotelId : HotelIds, checkIn : Nat,
                         checkOut : Nat, price : Int, status : Statuses])
    /\ Len(bookings) <= MaxBookings
    /\ users \in Seq([role : Roles, status : UserStatuses,
                      cityId : Cities \cup {"Z", "null"}])
    /\ Len(users) <= MaxUsers
    /\ now \in 0..MaxNow
    /\ lastOk \in {"none", "createRoomBooking", "updateBooking", "cancelBooking",
                   "updateBookingStatus", "getBookingById",
                   "getCityAdminBookings", "getOwnerBookings",
                   "getAllBookings"}

----------------------------------------------------------------------------
(* Properties *)

Active(b) == b.status \in {"pending", "confirmed"}

\* the half-open ranges [a, b) and [c, d) overlap
Overlap(a, b, c, d) == a < d /\ c < b

\* C1: on every room, any two distinct pending or confirmed bookings have
\* non-overlapping half-open ranges [checkIn, checkOut)
C1_NoOverlap ==
    \A i, j \in DOMAIN bookings :
        (i # j /\ bookings[i].roomId = bookings[j].roomId
              /\ Active(bookings[i]) /\ Active(bookings[j]))
        => ~Overlap(bookings[i].checkIn, bookings[i].checkOut,
                    bookings[j].checkIn, bookings[j].checkOut)

\* C2: two createRoomBooking requests for the same room and the same range
\* never both succeed, however their queries and inserts interleave
C2_NeverBothSucceed ==
    \A i, j \in DOMAIN bookings :
        i # j => ~(/\ bookings[i].roomId = bookings[j].roomId
                   /\ bookings[i].checkIn = bookings[j].checkIn
                   /\ bookings[i].checkOut = bookings[j].checkOut)

\* C3: once a booking is cancelled or rejected, no step changes its status
C3_TerminalStatus ==
    [][\A i \in DOMAIN bookings :
          bookings[i].status \in {"cancelled", "rejected"}
          => bookings'[i].status = bookings[i].status]_vars

\* C4: a status change made by updateBookingStatus goes from pending to
\* confirmed or from pending to rejected
C4_OnlyFromPending ==
    [][\A i \in DOMAIN bookings :
          (lastOk' = "updateBookingStatus"
              /\ bookings'[i].status # bookings[i].status)
          => /\ bookings[i].status = "pending"
             /\ bookings'[i].status \in {"confirmed", "rejected"}]_vars

\* C7: every booking's hotelId is the hotelId of its room and its ownerId the
\* ownerId of that hotel
C7_DerivedAssociations ==
    \A i \in DOMAIN bookings :
        bookings[i].roomId \in DOMAIN rooms
        => /\ bookings[i].hotelId = rooms[bookings[i].roomId].hotelId
           /\ bookings[i].ownerId
                 = hotels[rooms[bookings[i].roomId].hotelId].ownerId

\* C9: every stored booking has checkOut strictly later than checkIn
C9_PositiveRange ==
    \A i \in DOMAIN bookings : bookings[i].checkOut > bookings[i].checkIn

\* a room createRoomBooking resolves to a hotel open for booking
Bookable(roomId) ==
    /\ roomId \in DOMAIN rooms
    /\ rooms[roomId].hotelId \in DOMAIN hotels
    /\ hotels[rooms[roomId].hotelId].isVisible
    /\ hotels[rooms[roomId].hotelId].status = "approved"
    /\ hotels[rooms[roomId].hotelId].ownerId \in Owners

\* some pending or confirmed booking of the room overlaps [checkIn, checkOut)
Blocked(roomId, checkIn, checkOut) ==
    \E i \in DOMAIN bookings :
        /\ bookings[i].roomId = roomId
        /\ bookings[i].status = "pending" \/ bookings[i].status = "confirmed"
        /\ bookings[i].checkIn < checkOut
        /\ checkIn < bookings[i].checkOut

\* C5: a valid createRoomBooking request of a customer on a bookable room is
\* answered with Conflict exactly when a pending or confirmed booking of the
\* room overlaps the requested range, and succeeds otherwise; the booking a
\* successful request stores overlaps no pending or confirmed booking of its
\* room
C5_ConflictIffOverlap ==
    /\ [](\A p \in Bookers, body \in CreateBodies :
            (validateCreateRoomBooking(body) /\ Bookable(body.roomId))
            => LET res == createOutcome(p, body).res
                   blocked == Blocked(body.roomId, body.checkIn, body.checkOut)
               IN  /\ res = "Conflict" <=> blocked
                   /\ res = "ok" <=> ~blocked)
    /\ [][Len(bookings') > Len(bookings)
          => LET new == bookings'[Len(bookings')]
             IN  /\ new.status = "pending"
                 /\ ~Blocked(new.roomId, new.checkIn, new.checkOut)]_vars

\* C5 witness: a booking was accepted on a room next to a confirmed booking
\* that ends when it begins, and a request for a range overlapping the
\* confirmed one is refused
C5_Witness ==
    /\ lastOk = "createRoomBooking"
    /\ \E i, k \in DOMAIN bookings :
          /\ k = Len(bookings) /\ i # k
          /\ bookings[k].status = "pending"
          /\ bookings[i].roomId = bookings[k].roomId
          /\ bookings[i].status = "confirmed"
          /\ bookings[i].checkOut = bookings[k].checkIn
          /\ \E p \in Bookers, body \in CreateBodies :
                /\ body.roomId = bookings[i].roomId
                /\ body.checkIn < bookings[i].checkOut
                /\ createOutcome(p, body).res = "Conflict"

\* the instants a candidate range is drawn from, in any order
ProbeDates == 4..7

\* C6: checkRoomAvailability reports a conflict exactly when a booking of the
\* room other than excludeBookingId is pending or confirmed and its range
\* [c, d) satisfies checkIn < d and c < checkOut; so the availability query
\* of createRoomBooking lets a request through only on a free range, and
\* updateBooking answers Conflict only when a booking other than the one
\* updated overlaps the new range
C6_AvailabilityExact ==
    /\ \A roomId \in RoomIds, checkIn \in ProbeDates, checkOut \in ProbeDates,
          excludeBookingId \in 0..MaxBookings :
          checkRoomAvailability(roomId, checkIn, checkOut, excludeBookingId) # {}
          <=> \E i \in DOMAIN bookings :
                 /\ i # excludeBookingId
                 /\ bookings[i].roomId = roomId
                 /\ bookings[i].status = "pending"
                       \/ bookings[i].status = "confirmed"
                 /\ checkIn < bookings[i].checkOut
                 /\ bookings[i].checkIn < checkOut
    /\ \A q \in Slots :
          creates[q].pc = "save"
          => ~Blocked(creates[q].doc.roomId, creates[q].doc.checkIn,
                      creates[q].doc.checkOut)
    /\ \A p \in Bookers, id \in DOMAIN bookings, body \in UpdateBodies :
          LET checkIn == IF "checkIn" \in body.has THEN body.checkIn
                         ELSE bookings[id].checkIn
              checkOut == IF "checkOut" \in body.has THEN body.checkOut
                          ELSE bookings[id].checkOut
              roomId == IF "roomId" \in body.has THEN body.roomId
                        ELSE bookings[id].roomId
          IN  updateOutcome(p, id, body).res = "Conflict"
              => \E i \in DOMAIN bookings :
                    /\ i # id
                    /\ bookings[i].roomId = roomId
                    /\ Active(bookings[i])
                    /\ Overlap(checkIn, checkOut,
                               bookings[i].checkIn, bookings[i].checkOut)

\* C6 witness: the availability query of a create request has run, and an
\* update moving the check-in of a pending booking inside a range that
\* overlaps its own current range is accepted
C6_Witness ==
    /\ \E q \in Slots : creates[q].pc = "save"
    /\ \E p \in Bookers, id \in DOMAIN bookings, body \in UpdateBodies :
          /\ body.has = {"checkIn"}
          /\ id \in checkRoomAvailability(bookings[id].roomId, body.checkIn,
                                          bookings[id].checkOut, 0)
          /\ updateOutcome(p, id, body).res = "ok"

\* (checkOut - checkIn) in days, rounded up
DaysRoundedUp(checkIn, checkOut) ==
    IF (checkOut - checkIn) % DayTicks = 0
    THEN (checkOut - checkIn) \div DayTicks
    ELSE (checkOut - checkIn) \div DayTicks + 1

\* C8: whenever a booking is stored, or the roomId, checkIn or checkOut of a
\* stored booking changes, its price becomes the basePrice of its room times
\* the days from checkIn to checkOut rounded up; a request that carries a
\* price is not accepted
C8_PriceDerived ==
    /\ [](\A p \in Bookers :
            /\ \A body \in CreateBodies :
                  body.extra = "price" => createOutcome(p, body).res # "ok"
            /\ \A id \in DOMAIN bookings, body \in UpdateBodies :
                  body.extra = "price" => updateOutcome(p, id, body).res # "ok")
    /\ [][bookings' # bookings => \A i \in DOMAIN bookings' :
            (\/ i \notin DOMAIN bookings
             \/ bookings'[i].roomId # bookings[i].roomId
             \/ bookings'[i].checkIn # bookings[i].checkIn
             \/ bookings'[i].checkOut # bookings[i].checkOut)
            => bookings'[i].price
                  = rooms[bookings'[i].roomId].basePrice
                      * DaysRoundedUp(bookings'[i].checkIn,
                                      bookings'[i].checkOut)]_vars

\* C8 witness: an update has moved a booking to another room and left it a
\* range that is not a whole number of days, priced at the new room's rate
C8_Witness ==
    /\ lastOk = "updateBooking"
    /\ \E i \in DOMAIN bookings :
          /\ rooms[bookings[i].roomId].hotelId # bookings[i].hotelId
          /\ (bookings[i].checkOut - bookings[i].checkIn) % DayTicks # 0
          /\ bookings[i].price = 2 * rooms[bookings[i].roomId].basePrice

\* C10: cancelBooking by the customer of a booking succeeds exactly when the
\* booking is pending or confirmed and its check-in is more than 24 hours
\* (two ticks) after the request; when it succeeds the booking becomes
\* cancelled and nothing else changes
C10_CancelWindow ==
    /\ [](\A p \in Customers, id \in DOMAIN bookings :
            bookings[id].userId = p
            => (cancelOutcome(p, id) = "ok"
                <=> /\ bookings[id].status = "pending"
                       \/ bookings[id].status = "confirmed"
                    /\ (bookings[id].checkIn - now) * 12 > 24))
    /\ [][(lastOk' = "cancelBooking" /\ bookings' # bookings)
          => \E id \in DOMAIN bookings :
                /\ Active(bookings[id])
                /\ (bookings[id].checkIn - now) * 12 > 24
                /\ bookings' = [bookings EXCEPT ![id].status = "cancelled"]]_vars

\* C10 witness: a booking has just been cancelled by its customer while the
\* cancellation of another, exactly 24 hours from check-in, is refused
C10_Witness ==
    /\ lastOk = "cancelBooking"
    /\ \E i, j \in DOMAIN bookings :
          /\ bookings[i].status = "cancelled"
          /\ Active(bookings[j])
          /\ (bookings[j].checkIn - now) * 12 = 24
          /\ cancelOutcome(bookings[j].userId, j) = "InvalidTransition"

\* C11: updateBooking is answered with success only for a booking that is
\* pending and whose check-in is more than 48 hours (four ticks) after the
\* request, and with InvalidTransition when its customer sends a valid body
\* otherwise; a booking that is confirmed, cancelled or rejected, or within
\* 48 hours of its check-in, is left as it is by every step
C11_ModifyWindow ==
    /\ [](\A p \in Users, id \in DOMAIN bookings, body \in UpdateBodies :
            LET res == updateOutcome(p, id, body).res
                open == /\ bookings[id].status = "pending"
                        /\ (bookings[id].checkIn - now) * 12 > 48
            IN  /\ res = "ok" => open
                /\ (p = bookings[id].userId /\ validateUpdateRoomBooking(body)
                      /\ ~open)
                   => res = "InvalidTransition")
    /\ [][\A i \in DOMAIN bookings :
            ~(/\ bookings[i].status = "pending"
              /\ (bookings[i].checkIn - now) * 12 > 48)
            => bookings'[i] = bookings[i]]_vars

\* C11 witness: an update has just been stored while the store holds a
\* confirmed booking and a pending booking exactly 48 hours from check-in,
\* and an update of either is refused
C11_Witness ==
    /\ lastOk = "updateBooking"
    /\ \E i, j \in DOMAIN bookings, body \in UpdateBodies :
          /\ body.has = {"checkIn"}
          /\ bookings[i].status = "confirmed"
          /\ updateOutcome(bookings[i].userId, i, body).res = "InvalidTransition"
          /\ bookings[j].status = "pending"
          /\ (bookings[j].checkIn - now) * 12 = 48
          /\ updateOutcome(bookings[j].userId, j, body).res = "InvalidTransition"

\* C12: updateBookingStatus is answered with success exactly when the caller's
\* id is the booking's ownerId or the caller is a super admin; every other
\* caller (another hotel's owner, the booking's customer, a city admin) is
\* answered with Forbidden, and the booking stays as it is
C12_StatusPermission ==
    \A p \in Users, id \in DOMAIN bookings, status \in Statuses :
        LET allowed == p = bookings[id].ownerId \/ role(p) = "super_admin"
            res == statusOutcome(p, id, status)
        IN  /\ res = "ok" <=> allowed
            /\ ~allowed => res = "Forbidden"

\* C12 witness: the owner of a hotel or the super admin has just confirmed a
\* booking that the other hotel's owner, the booking's customer and a city
\* admin are each refused to change
C12_Witness ==
    /\ lastOk = "updateBookingStatus"
    /\ \E id \in DOMAIN bookings :
          /\ bookings[id].status = "confirmed"
          /\ bookings[id].ownerId = "o1"
          /\ statusOutcome("o1", id, "rejected") = "ok"
          /\ statusOutcome("o2", id, "rejected") = "Forbidden"
          /\ statusOutcome(bookings[id].userId, id, "rejected") = "Forbidden"
          /\ statusOutcome("ca1", id, "rejected") = "Forbidden"

\* C13: updateBooking and cancelBooking succeed only for the caller whose id
\* is the booking's userId; every other caller (the hotel's owner, a super
\* admin, another customer) is refused, with Forbidden whenever the request
\* is well formed, and the booking stays as it is
C13_CustomerOnly ==
    \A p \in Users, id \in DOMAIN bookings :
        p # bookings[id].userId
        => /\ cancelOutcome(p, id) = "Forbidden"
           /\ \A body \in UpdateBodies :
                 LET res == updateOutcome(p, id, body).res
                 IN  /\ res # "ok"
                     /\ validateUpdateRoomBooking(body) => res = "Forbidden"

\* C13 witness: the customer of a booking has just cancelled one booking and
\* may edit and cancel another, which another customer, the hotel's owner and
\* the super admin are refused to edit or cancel
C13_Witness ==
    /\ lastOk = "cancelBooking"
    /\ \E id \in DOMAIN bookings, body \in UpdateBodies :
          /\ body.has = {"checkIn"}
          /\ updateOutcome(bookings[id].userId, id, body).res = "ok"
          /\ cancelOutcome(bookings[id].userId, id) = "ok"
          /\ updateOutcome("c2", id, body).res = "Forbidden"
          /\ updateOutcome(bookings[id].ownerId, id, body).res = "Forbidden"
          /\ cancelOutcome("c2", id) = "Forbidden"
          /\ cancelOutcome("sa", id) = "Forbidden"

\* C14: getBookingById answers with the booking exactly when the caller is
\* the booking's userId, or its ownerId, or a super admin, and with Forbidden
\* for every other caller
C14_ViewExact ==
    \A p \in Users, id \in DOMAIN bookings :
        LET canView == \/ p = bookings[id].userId
                       \/ p = bookings[id].ownerId
                       \/ role(p) = "super_admin"
        IN  /\ getOutcome(p, id) = "ok" <=> canView
            /\ getOutcome(p, id) = "Forbidden" <=> ~canView

\* C15: the listing of a city admin assigned city X holds only bookings whose
\* hotel is in city X, whatever status filter, search text and page are asked
\* for; a city admin without a city is answered with Forbidden and no
\* bookings, as is every caller who is not a city admin
C15_CityScoped ==
    \A p \in Users, status \in StatusFilters, search \in Searches,
       page \in Pages, pageSize \in PageSizes :
        LET out == listOutcome(p, status, search, page, pageSize)
        IN  /\ out.res = "ok" => role(p) = "city_admin" /\ cityId(p) # "null"
            /\ \A i \in out.bookings :
                  hotels[bookings[i].hotelId].cityId = cityId(p)
            /\ (role(p) = "city_admin" /\ cityId(p) = "null")
               => out.res = "Forbidden" /\ out.bookings = {}

\* C15 witness: the store holds a booking of a hotel in city X and one of a
\* hotel in city Y, and the city admin of X has just listed: the listing
\* holds the first and not the second
C15_Witness ==
    /\ lastOk = "getCityAdminBookings"
    /\ \E i, j \in DOMAIN bookings :
          /\ hotels[bookings[i].hotelId].cityId = "X"
          /\ hotels[bookings[j].hotelId].cityId = "Y"
          /\ bookings[i].status = bookings[j].status
          /\ listOutcome("ca1", bookings[i].status, <<"a">>, 1, 20).bookings = {i}
          /\ listOutcome("ca0", "all", <<>>, 1, 20).res = "Forbidden"

\* C16: a valid createRoomBooking request of a customer succeeds only if the
\* room exists, its hotel exists, the hotel is approved and visible, and the
\* hotel's owner exists with role owner; it is answered with NotFound when
\* the room, the hotel or the owner is missing and with InvalidState when
\* the hotel is not bookable or the owner's role is not owner
C16_ResolveOrFail ==
    \A p \in Bookers, body \in CreateBodies :
        validateCreateRoomBooking(body)
        => LET res == createOutcome(p, body).res
               roomOk == body.roomId \in DOMAIN rooms
               hotelOk == roomOk /\ rooms[body.roomId].hotelId \in DOMAIN hotels
               hotel == hotels[rooms[body.roomId].hotelId]
               bookable == hotelOk /\ hotel.status = "approved" /\ hotel.isVisible
               ownerOk == bookable /\ hotel.ownerId \in Users
           IN  /\ res = "ok" => ownerOk /\ role(hotel.ownerId) = "owner"
               /\ ~roomOk => res = "NotFound"
               /\ (roomOk /\ ~hotelOk) => res = "NotFound"
               /\ (hotelOk /\ ~bookable) => res = "InvalidState"
               /\ (bookable /\ ~ownerOk) => res = "NotFound"
               /\ (ownerOk /\ role(hotel.ownerId) # "owner")
                  => res = "InvalidState"

C18_CustomerCreatesPending ==
    /\ [](\A p \in Users, body \in CreateBodies :
            LET out == createOutcome(p, body)
            IN  /\ out.res = "ok"
                   => /\ role(p) = "customer"
                      /\ out.doc.status = "pending"
                      /\ out.doc.userId = p
                      /\ body.extra \notin {"status", "userId"}
                /\ role(p) # "customer" => out.res = "Forbidden")
    /\ [][Len(bookings') > Len(bookings)
          => /\ bookings'[Len(bookings')].status = "pending"
             /\ role(bookings'[Len(bookings')].userId) = "customer"]_vars

\* C18 witness: a customer's booking has just been stored as pending, while
\* the same request from an owner, a city admin or the super admin is
\* refused, and so is the customer's request carrying a status
C18_Witness ==
    /\ lastOk = "createRoomBooking"
    /\ bookings # <<>>
    /\ bookings[Len(bookings)].status = "pending"
    /\ \E body \in CreateBodies :
          /\ createOutcome("c1", body).res = "ok"
          /\ createOutcome("c2", body).res = "ok"
          /\ createOutcome("o1", body).res = "Forbidden"
          /\ createOutcome("ca1", body).res = "Forbidden"
          /\ createOutcome("sa", body).res = "Forbidden"
    /\ \E body \in CreateBodies :
          body.extra = "status" /\ createOutcome("c1", body).res = "Validation"

\* C19: a successful updateBookingStatus changes the status of one booking
\* and nothing else: the booking's other fields, the other bookings, the
\* rooms and the hotels stay as they were; it runs no availability check, so
\* it succeeds for the owner and the super admin whatever the other
\* bookings of the room are
C19_StatusFrame ==
    /\ [](\A p \in Users, id \in DOMAIN bookings, status \in Statuses :
            (p = bookings[id].ownerId \/ role(p) = "super_admin")
            => statusOutcome(p, id, status) = "ok")
    /\ [][lastOk' = "updateBookingStatus"
          => /\ \E id \in DOMAIN bookings, status \in Statuses :
                   bookings' = [bookings EXCEPT ![id].status = status]
             /\ rooms' = rooms /\ hotels' = hotels]_vars

\* C19 witness: a status change has just made a booking pending or
\* confirmed while another pending or confirmed booking of the same room
\* overlaps it
C19_Witness ==
    /\ lastOk = "updateBookingStatus"
    /\ \E i, j \in DOMAIN bookings :
          /\ i # j
          /\ bookings[i].roomId = bookings[j].roomId
          /\ Active(bookings[i]) /\ Active(bookings[j])
          /\ Overlap(bookings[i].checkIn, bookings[i].checkOut,
                     bookings[j].checkIn, bookings[j].checkOut)

\* C20: an updateBooking that moves a pending booking in time or onto a room
\* and a createRoomBooking or second updateBooking for an overlapping range
\* on that room never both succeed: whatever the interleaving, no two
\* pending bookings of a room are left with overlapping ranges
C20_EditsAtomic ==
    \A i, j \in DOMAIN bookings :
        (i < j /\ bookings[i].status = "pending" /\ bookings[j].status = "pending"
               /\ bookings[i].roomId = bookings[j].roomId)
        => ~(/\ bookings[i].checkIn < bookings[j].checkOut
             /\ bookings[j].checkIn < bookings[i].checkOut)

\* C21: no stored booking has more guests, adults and children together,
\* than the capacity of its room
C21_WithinCapacity ==
    \A i \in DOMAIN bookings :
        bookings[i].roomId \in DOMAIN rooms
        => bookings[i].adults + bookings[i].children
              <= rooms[bookings[i].roomId].capacity

\* C22: each city has at most one active city admin, and every city admin
\* has a city: no two distinct users with role city_admin and status active
\* share a cityId, and no user with role city_admin has a null cityId
C22_OneActiveAdmin ==
    /\ \A i, j \in DOMAIN users :
          (i # j /\ users[i].role = "city_admin" /\ users[j].role = "city_admin"
                 /\ users[i].status = "active" /\ users[j].status = "active")
          => users[i].cityId # users[j].cityId
    /\ \A i \in DOMAIN users :
          users[i].role = "city_admin" => users[i].cityId # "null"

\* C23: no two rooms of the same hotel have names that are equal ignoring
\* letter case
C23_UniqueNames ==
    \A r, q \in DOMAIN rooms :
        (r # q /\ rooms[r].hotelId = rooms[q].hotelId)
        => fold(rooms[r].name) # fold(rooms[q].name)

\* C24: a booking request answered with an error (NotFound, Forbidden,
\* InvalidState, InvalidTransition, Conflict, a validation failure) leaves
\* the store as it was: no booking inserted, no field of a booking modified
Errors ==
    {"NotFound", "Forbidden", "InvalidState", "InvalidTransition", "Conflict",
     "Validation", "Error"}

C24_ErrorsChangeNothing ==
    [][(creates'[1] # creates[1] /\ creates'[1].pc = "sent"
            /\ creates'[1].res \in Errors)
       => UNCHANGED <<bookings, rooms, hotels>>]_vars

C24_Witness ==
    /\ creates[1].pc = "sent"
    /\ creates[1].res = "Conflict"
    /\ \E i \in DOMAIN bookings : bookings[i].status = "pending"

\* C25: the roomId, checkIn, checkOut and price of a booking change only
\* while its stored status is pending: no step changes one of them on a
\* booking that is confirmed, cancelled or rejected
C25_EditsOnlyPending ==
    [][\A i \in DOMAIN bookings :
          bookings[i].status # "pending"
          => /\ bookings'[i].roomId = bookings[i].roomId
             /\ bookings'[i].checkIn = bookings[i].checkIn
             /\ bookings'[i].checkOut = bookings[i].checkOut
             /\ bookings'[i].price = bookings[i].price]_vars

\* C26: updateBooking never changes the status, the userId or the ownerId
\* of a booking, whatever keys the body carries: for every caller, booking
\* and body, the document the handler leaves, and the one the route with
\* its middleware leaves, has the three fields of the stored booking
C26_UpdateKeepsStatusAndParties ==
    \A p \in Users, id \in DOMAIN bookings, body \in UpdateBodies :
        \A out \in {updateHandler(p, id, body), updateOutcome(p, id, body)} :
            out.res = "ok"
            => /\ out.doc.status = bookings[id].status
               /\ out.doc.userId = bookings[id].userId
               /\ out.doc.ownerId = bookings[id].ownerId

C26_Witness ==
    /\ lastOk = "updateBooking"
    /\ \E p \in Users, id \in DOMAIN bookings :
          updateHandler(p, id, UpdateBody({}, 4, 4, "r1", "h1", "status")).res
              = "ok"

\* C27: a booking is created only for a room that is itself bookable: every
\* step that stores a new booking stores it for a room whose status is
\* visible, so a request for a hidden room stores nothing
C27_HiddenRoomNotBooked ==
    [][Len(bookings') > Len(bookings)
       => rooms[bookings'[Len(bookings')].roomId].status = "visible"]_vars

\* C28: the roomId of every pending or confirmed booking names an existing
\* room: a room with such a booking is not deleted
C28_ActiveBookingHasRoom ==
    \A i \in DOMAIN bookings :
        Active(bookings[i]) => bookings[i].roomId \in DOMAIN rooms

\* C29: no operation changes the ownerId or the cityId of a hotel or the
\* hotelId of a room: the document updateHotel leaves, for the handler on
\* its own and for the route, has the stored ownerId and cityId for every
\* caller and body; updateRoom succeeds for no body with a hotelId; and no
\* step changes one of the three fields of a hotel or room it keeps
C29_ChainFixed ==
    /\ [](\A p \in RoomManagers, id \in DOMAIN hotels,
             body \in UpdateHotelBodies :
             \A out \in {updateHotelHandler(p, id, body),
                         updateHotelOutcome(p, id, body)} :
                 out.res = "ok"
                 => /\ out.doc.ownerId = hotels[id].ownerId
                    /\ out.doc.cityId = hotels[id].cityId)
    /\ [](\A p \in RoomManagers, roomId \in DOMAIN rooms,
             body \in UpdateRoomBodies :
             body.extra = "hotelId" => updateRoomOutcome(p, roomId, body) # "ok")
    /\ [][/\ \A h \in DOMAIN hotels \cap DOMAIN hotels' :
                /\ hotels'[h].ownerId = hotels[h].ownerId
                /\ hotels'[h].cityId = hotels[h].cityId
          /\ \A r \in DOMAIN rooms \cap DOMAIN rooms' :
                rooms'[r].hotelId = rooms[r].hotelId]_vars

C29_Witness ==
    /\ hotels["h1"].stars = 4
    /\ "r1" \in DOMAIN rooms
    /\ rooms["r1"].basePrice = 120
    /\ hotels["h1"].cityId = "X"
    /\ updateHotelHandler("sa", "h1",
           [has |-> {"cityId"}, stars |-> 4, cityId |-> "X",
            extra |-> "ownerId"]).res = "ok"

\* C30: the listing of an owner holds only bookings whose ownerId is the
\* caller, whatever status, hotelId and page are asked for, and none at all
\* for the hotelId of another owner's hotel; the unfiltered listing of the
\* super admin holds every booking
C30_OwnerScoped ==
    /\ \A p \in Users, status \in StatusFilters, hotelId \in HotelFilters,
          page \in Pages, pageSize \in PageSizes :
          LET out == ownerListOutcome(p, status, hotelId, page, pageSize)
          IN  /\ \A i \in out.bookings : bookings[i].ownerId = p
              /\ (hotelId \in DOMAIN hotels /\ hotels[hotelId].ownerId # p)
                 => out.bookings = {}
    /\ adminListOutcome("sa", "none", "none", "none", <<>>, 1, 20).bookings
          = DOMAIN bookings

====
